---- MODULE Spec2Model ----
(***************************************************************************)
(* The register file (src/src/cpu/registers.rs) and the execution engine   *)
(* (src/src/cpu/cpu.rs) of the emulator's CPU.                             *)
(*                                                                         *)
(* A state is the register file of one CPU instance (the seven 8-bit       *)
(* registers and the four flags), whether the process is still running or  *)
(* has panicked, the build's overflow-check setting, and the history of    *)
(* the calls made so far (each with the register file it started from).    *)
(***************************************************************************)
EXTENDS Integers, Sequences, FiniteSets

VARIABLES
    registers,        \* CPU.registers: the fields a, b, c, d, e, h, l and f
    status,           \* "ok" while the process runs, "panicked" after a panic
    overflow_checks,  \* TRUE in a build that checks integer overflow (debug)
    hist              \* the calls made so far, each with its starting state

vars == <<registers, status, overflow_checks, hist>>

----------------------------------------------------------------------------
(* Bounds of the model.                                                    *)

\* calls a driver makes on one register file under Spec and SpecRegisters
MaxSteps == 1
\* instructions a driver issues under SpecIncDec and SpecNew
MaxSeq == 2
\* distance between the values two neighbouring registers start with under
\* SpecIncDec
Spread == 37

----------------------------------------------------------------------------
(* Fixed-width integer arithmetic of the source language.                  *)

U8 == 256
U16 == 65536

RECURSIVE BitAnd(_, _)
BitAnd(x, y) ==
    IF x = 0 \/ y = 0 THEN 0
    ELSE (x % 2) * (y % 2) + 2 * BitAnd(x \div 2, y \div 2)

RECURSIVE BitOr(_, _)
BitOr(x, y) ==
    IF x = 0 THEN y
    ELSE IF y = 0 THEN x
    ELSE (IF x % 2 = 1 \/ y % 2 = 1 THEN 1 ELSE 0)
         + 2 * BitOr(x \div 2, y \div 2)

RECURSIVE BitXor(_, _)
BitXor(x, y) ==
    IF x = 0 THEN y
    ELSE IF y = 0 THEN x
    ELSE ((x + y) % 2) + 2 * BitXor(x \div 2, y \div 2)

RECURSIVE Pow2(_)
Pow2(n) == IF n = 0 THEN 1 ELSE 2 * Pow2(n - 1)

\* x << n and x >> n on an unsigned integer of the given width
Shl(x, n, width) == (x * Pow2(n)) % width
Shr(x, n) == x \div Pow2(n)

\* u8::overflowing_add and u8::overflowing_sub: the wrapped result and
\* whether the exact result was out of range
overflowing_add(x, y) == <<(x + y) % U8, x + y >= U8>>
overflowing_sub(x, y) == <<(x - y) % U8, x - y < 0>>

----------------------------------------------------------------------------
(* The register file.                                                      *)

AritmeticTarget == {"A", "B", "C", "D", "E", "H", "L"}

FlagRegister == [zero : BOOLEAN, subtract : BOOLEAN,
                 half_carry : BOOLEAN, carry : BOOLEAN]

Registers == [a : 0..255, b : 0..255, c : 0..255, d : 0..255, e : 0..255,
              f : FlagRegister, h : 0..255, l : 0..255]

unfold_le(value) ==
    <<BitAnd(value, 255), Shr(BitAnd(value, 65280), 8)>>

unfold(value) ==
    <<Shr(BitAnd(value, 65280), 8), BitAnd(value, 255)>>

fold(left, right) == BitOr(Shl(left, 8, U16), right)

get_bc(r) == fold(r.b, r.c)
get_de(r) == fold(r.d, r.e)
get_hl(r) == fold(r.h, r.l)

set_bc(r, value) ==
    LET p == unfold(value) IN [r EXCEPT !.b = p[1], !.c = p[2]]

set_de(r, value) ==
    LET p == unfold(value) IN [r EXCEPT !.d = p[1], !.e = p[2]]

set_hl(r, value) ==
    LET p == unfold(value) IN [r EXCEPT !.h = p[1], !.l = p[2]]

----------------------------------------------------------------------------
(* The execution engine.  An arithmetic routine returns the new value and  *)
(* the new flags, or panics where the build checks an overflowing + or -.  *)

InScope == {"ADD", "ADC", "SUB", "SBC", "XOR", "AND", "OR", "CP",
            "INC", "DEC", "SWAP"}

\* the variants of Instruction that fall to the arm `_ =>` of CPU::execute
OutOfScope == {"OTHER"}

Instruction == [op : InScope \cup OutOfScope, target : AritmeticTarget]

Returns(new_value, flags) ==
    [panic |-> FALSE, value |-> new_value, flags |-> flags]

Panics == [panic |-> TRUE]

\* a + b and a - b on u8 operands: a panic in a build with overflow checks,
\* the wrapped result in a build without
Plus(x, y, checked) ==
    IF x + y >= U8 /\ checked THEN Panics
    ELSE [panic |-> FALSE, value |-> (x + y) % U8]

Minus(x, y, checked) ==
    IF x - y < 0 /\ checked THEN Panics
    ELSE [panic |-> FALSE, value |-> (x - y) % U8]

BoolAsInt(b) == IF b THEN 1 ELSE 0

register_from_target(r, target) ==
    CASE target = "A" -> r.a
      [] target = "B" -> r.b
      [] target = "C" -> r.c
      [] target = "D" -> r.d
      [] target = "E" -> r.e
      [] target = "H" -> r.h
      [] target = "L" -> r.l

\* mutant: the slot handed out is always the accumulator's
register_ref_always_a(r, target, new_value) ==
    [r EXCEPT !.a = new_value]

\* *self.register_ref_from_target(target) = new_value
register_ref_from_target(r, target, new_value) ==
    CASE target = "A" -> [r EXCEPT !.a = new_value]
      [] target = "B" -> [r EXCEPT !.b = new_value]
      [] target = "C" -> [r EXCEPT !.c = new_value]
      [] target = "D" -> [r EXCEPT !.d = new_value]
      [] target = "E" -> [r EXCEPT !.e = new_value]
      [] target = "H" -> [r EXCEPT !.h = new_value]
      [] target = "L" -> [r EXCEPT !.l = new_value]

\* mutant: the half carry is taken from the result
add_half_carry_of_result(r, target) ==
    LET value == register_from_target(r, target)
        res   == overflowing_add(r.a, value)
    IN  Returns(res[1],
                [zero       |-> res[1] = 0,
                 subtract   |-> FALSE,
                 half_carry |-> BitAnd(res[1], 15) + BitAnd(value, 15) > 15,
                 carry      |-> res[2]])

add(r, target) ==
    LET value == register_from_target(r, target)
        res   == overflowing_add(r.a, value)
    IN  Returns(res[1],
                [zero       |-> res[1] = 0,
                 subtract   |-> FALSE,
                 half_carry |-> BitAnd(r.a, 15) + BitAnd(value, 15) > 15,
                 carry      |-> res[2]])

add_with_carry(r, target) ==
    LET value     == register_from_target(r, target)
        big_value == r.a + value + BoolAsInt(r.f.carry)
        new_value == big_value % U8
    IN  Returns(new_value,
                [zero       |-> new_value = 0,
                 subtract   |-> FALSE,
                 half_carry |-> BitAnd(r.a, 15) + BitAnd(value, 15) > 15,
                 carry      |-> big_value > 255])

\* mutant: the borrow is raised when the operands are equal as well
subtract_carry_on_equal(r, target) ==
    LET value == register_from_target(r, target)
        res   == overflowing_sub(r.a, value)
    IN  Returns(res[1],
                [zero       |-> res[1] = 0,
                 subtract   |-> TRUE,
                 half_carry |-> BitAnd(r.a, 15) - BitAnd(value, 15) < 0,
                 carry      |-> r.a <= value])

subtract(r, target) ==
    LET value == register_from_target(r, target)
        res   == overflowing_sub(r.a, value)
    IN  Returns(res[1],
                [zero       |-> res[1] = 0,
                 subtract   |-> TRUE,
                 half_carry |-> BitAnd(r.a, 15) - BitAnd(value, 15) < 0,
                 carry      |-> res[2]])

subtract_with_carry(r, target, checked) ==
    LET value   == register_from_target(r, target)
        operand == Minus(value, BoolAsInt(r.f.carry), checked)
    IN  IF operand.panic THEN Panics
        ELSE LET res == overflowing_sub(r.a, operand.value)
             IN  Returns(res[1],
                         [zero       |-> res[1] = 0,
                          subtract   |-> TRUE,
                          half_carry |->
                              BitAnd(r.a, 15) - BitAnd(value, 15) < 0,
                          carry      |-> res[2]])

xor(r, target) ==
    LET new_value == BitXor(r.a, register_from_target(r, target))
    IN  Returns(new_value,
                [zero |-> new_value = 0, subtract |-> FALSE,
                 half_carry |-> FALSE, carry |-> FALSE])

and(r, target) ==
    LET new_value == BitAnd(r.a, register_from_target(r, target))
    IN  Returns(new_value,
                [zero |-> new_value = 0, subtract |-> FALSE,
                 half_carry |-> TRUE, carry |-> FALSE])

or(r, target) ==
    LET new_value == BitOr(r.a, register_from_target(r, target))
    IN  Returns(new_value,
                [zero |-> new_value = 0, subtract |-> FALSE,
                 half_carry |-> FALSE, carry |-> FALSE])

\* mutant: the half carry is taken from the target register
increment_half_carry_of_target(r, target, checked) ==
    LET sum == Plus(register_from_target(r, target), 1, checked)
    IN  IF sum.panic THEN Panics
        ELSE Returns(sum.value,
                     [zero       |-> sum.value = 0,
                      subtract   |-> FALSE,
                      half_carry |->
                          BitAnd(register_from_target(r, target), 15) + 1 > 15,
                      carry      |-> r.f.carry])

increment(r, target, checked) ==
    LET sum == Plus(register_from_target(r, target), 1, checked)
    IN  IF sum.panic THEN Panics
        ELSE Returns(sum.value,
                     [zero       |-> sum.value = 0,
                      subtract   |-> FALSE,
                      half_carry |-> BitAnd(r.a, 15) + 1 > 15,
                      carry      |-> r.f.carry])

\* mutant: the carry is overwritten like the other flags
decrement_clears_carry(r, target, checked) ==
    LET diff == Minus(register_from_target(r, target), 1, checked)
    IN  IF diff.panic THEN Panics
        ELSE Returns(diff.value,
                     [zero       |-> diff.value = 0,
                      subtract   |-> TRUE,
                      half_carry |-> BitAnd(r.a, 15) - 1 < 0,
                      carry      |-> FALSE])

decrement(r, target, checked) ==
    LET diff == Minus(register_from_target(r, target), 1, checked)
    IN  IF diff.panic THEN Panics
        ELSE Returns(diff.value,
                     [zero       |-> diff.value = 0,
                      subtract   |-> TRUE,
                      half_carry |-> BitAnd(r.a, 15) - 1 < 0,
                      carry      |-> r.f.carry])

NoFlags == [zero |-> FALSE, subtract |-> FALSE,
            half_carry |-> FALSE, carry |-> FALSE]

\* mutant: the zero flag follows the result
swap_sets_zero(r, target) ==
    LET value == register_from_target(r, target)
    IN  IF value = 0 THEN Returns(0, [NoFlags EXCEPT !.zero = TRUE])
        ELSE Returns(BitOr(Shl(BitAnd(value, 15), 4, U8),
                           Shr(BitAnd(value, 240), 4)),
                     NoFlags)

swap(r, target) ==
    LET value == register_from_target(r, target)
    IN  IF value = 0 THEN Returns(0, NoFlags)
        ELSE LET down_nibble      == BitAnd(value, 15)
                 upper_nibble     == BitAnd(value, 240)
                 new_down_nibble  == Shr(upper_nibble, 4)
                 new_upper_nibble == Shl(down_nibble, 4, U8)
                 new_value        == BitOr(new_upper_nibble, new_down_nibble)
             IN  Returns(new_value, NoFlags)

\* what a call of execute leaves behind: the register file, and whether the
\* call returned or panicked
Completed(r) == [registers |-> r, panicked |-> FALSE]
Panicked(r) == [registers |-> r, panicked |-> TRUE]

\* the arms that write the accumulator and the flags
CommitA(r, res) ==
    IF res.panic THEN Panicked(r)
    ELSE Completed([r EXCEPT !.a = res.value, !.f = res.flags])

\* the arms that write the target register and the flags
CommitTarget(r, target, res) ==
    IF res.panic THEN Panicked(r)
    ELSE Completed([register_ref_from_target(r, target, res.value)
                        EXCEPT !.f = res.flags])

\* mutant: an instruction without an arm is skipped
unimplemented_skips(r) == Completed(r)

\* unimplemented!()
unimplemented(r) == Panicked(r)

execute(r, instruction, checked) ==
    LET target == instruction.target
    IN  CASE instruction.op = "ADD" -> CommitA(r, add(r, target))
          [] instruction.op = "ADC" ->
                 CommitA(r, add_with_carry(r, target))
          [] instruction.op = "SUB" ->
                 CommitA(r, subtract(r, target))
          [] instruction.op = "SBC" ->
                 CommitA(r, subtract_with_carry(r, target, checked))
          [] instruction.op = "XOR" -> CommitA(r, xor(r, target))
          [] instruction.op = "AND" -> CommitA(r, and(r, target))
          [] instruction.op = "OR" -> CommitA(r, or(r, target))
          [] instruction.op = "CP" ->
                 LET res == subtract(r, target)
                 IN  IF res.panic THEN Panicked(r)
                     ELSE Completed([r EXCEPT !.f = res.flags])
          [] instruction.op = "INC" ->
                 CommitTarget(r, target, increment(r, target, checked))
          [] instruction.op = "DEC" ->
                 CommitTarget(r, target, decrement(r, target, checked))
          [] instruction.op = "SWAP" ->
                 CommitTarget(r, target, swap(r, target))
          [] OTHER -> unimplemented(r)

----------------------------------------------------------------------------
(* The states a driver can put a CPU instance in before it calls it: the   *)
(* fields of Registers are public and the tests assign them directly.      *)

ByteSamples == <<0, 1, 5, 10, 15, 16, 126, 128, 165, 240, 254, 255, 17>>

Strides == {1, 2}

FlagSamples ==
    {fl \in FlagRegister :
         fl.zero = fl.subtract /\ fl.subtract = fl.half_carry}

WordSamples == {0, 1, 255, 256, 513, 2051, 2818, 5947, 32768, 43981,
                65280, 65535}

\* the register file whose seven registers hold values[1], ..., values[7]
RegisterFile(values, flags) ==
    [a |-> values[1], b |-> values[2], c |-> values[3], d |-> values[4],
     e |-> values[5], f |-> flags, h |-> values[6], l |-> values[7]]

\* Registers::new()
new == RegisterFile([j \in 1..7 |-> 0], NoFlags)

NoInstruction == [op |-> "-", target |-> "-"]

Call(name, instruction, value) ==
    [call |-> name, instruction |-> instruction, value |-> value,
     registers |-> registers]

Init ==
    /\ \E i \in 1..Len(ByteSamples), k \in Strides, fl \in FlagSamples :
           registers =
               RegisterFile(
                   [j \in 1..7 |->
                        ByteSamples[((i - 1 + k * (j - 1))
                                         % Len(ByteSamples)) + 1]],
                   fl)
    /\ status = "ok"
    /\ overflow_checks \in BOOLEAN
    /\ hist = <<>>

\* every register takes every 8-bit value
InitIncDec ==
    /\ \E v \in 0..(U8 - 1),
          fl \in {fl \in FlagSamples : fl.zero = fl.carry} :
           registers =
               RegisterFile([j \in 1..7 |-> (v + Spread * (j - 1)) % U8], fl)
    /\ status = "ok"
    /\ overflow_checks \in BOOLEAN
    /\ hist = <<>>

\* cpu.execute(instruction)
Execute(instruction) ==
    /\ status = "ok"
    /\ LET out == execute(registers, instruction, overflow_checks)
       IN  /\ registers' = out.registers
           /\ status' = IF out.panicked THEN "panicked" ELSE "ok"
    /\ hist' = Append(hist, Call("execute", instruction, 0))
    /\ UNCHANGED overflow_checks

\* registers.set_bc(value), registers.set_de(value), registers.set_hl(value)
SetBC(value) ==
    /\ status = "ok"
    /\ registers' = set_bc(registers, value)
    /\ hist' = Append(hist, Call("set_bc", NoInstruction, value))
    /\ UNCHANGED <<status, overflow_checks>>

SetDE(value) ==
    /\ status = "ok"
    /\ registers' = set_de(registers, value)
    /\ hist' = Append(hist, Call("set_de", NoInstruction, value))
    /\ UNCHANGED <<status, overflow_checks>>

SetHL(value) ==
    /\ status = "ok"
    /\ registers' = set_hl(registers, value)
    /\ hist' = Append(hist, Call("set_hl", NoInstruction, value))
    /\ UNCHANGED <<status, overflow_checks>>

\* a driver that issues instructions to a CPU it has set up
Next ==
    \E instruction \in Instruction :
        Len(hist) < MaxSteps /\ Execute(instruction)

Spec == Init /\ [][Next]_vars

\* a driver that sets the 16-bit pairs of a register file
NextRegisters ==
    \/ \E value \in WordSamples : Len(hist) < MaxSteps /\ SetBC(value)
    \/ \E value \in WordSamples : Len(hist) < MaxSteps /\ SetDE(value)
    \/ \E value \in WordSamples : Len(hist) < MaxSteps /\ SetHL(value)

SpecRegisters == Init /\ [][NextRegisters]_vars

\* a driver that issues INC and DEC only
NextIncDec ==
    \E instruction \in [op : {"INC", "DEC"}, target : AritmeticTarget] :
        Len(hist) < MaxSeq /\ Execute(instruction)

SpecIncDec == InitIncDec /\ [][NextIncDec]_vars

\* a driver that issues instructions to a newly built CPU
InitNew ==
    /\ registers = new
    /\ status = "ok"
    /\ overflow_checks \in BOOLEAN
    /\ hist = <<>>

NextNew ==
    \E instruction \in Instruction :
        Len(hist) < MaxSeq /\ Execute(instruction)

SpecNew == InitNew /\ [][NextNew]_vars

----------------------------------------------------------------------------
(* The history: the register file before and after the i-th call, and      *)
(* whether that call returned.                                             *)

Calls == 1..Len(hist)

Pre(i) == hist[i].registers

Post(i) == IF i < Len(hist) THEN hist[i + 1].registers ELSE registers

Returned(i) == i < Len(hist) \/ status = "ok"

Executed(i, ops) ==
    hist[i].call = "execute" /\ hist[i].instruction.op \in ops

Target(i) == hist[i].instruction.target

\* the operand of the i-th call: the target register's value before it
Operand(i) == register_from_target(Pre(i), Target(i))

\* the target register's value after the i-th call
Result(i) == register_from_target(Post(i), Target(i))

----------------------------------------------------------------------------
(* The claims.                                                             *)

\* C1: whenever INC(target) starts with the target at v <= 254 and the next
\* instruction is DEC(target), both return, the target is back at v, and the
\* carry flag after the INC and after the DEC is the carry flag before the INC.
C1_IncThenDecRestores ==
    \A i \in Calls :
        ( /\ i < Len(hist)
          /\ Executed(i, {"INC"})
          /\ Executed(i + 1, {"DEC"})
          /\ Target(i + 1) = Target(i)
          /\ Operand(i) <= 254 )
        => /\ Returned(i + 1)
           /\ Result(i + 1) = Operand(i)
           /\ Post(i).f.carry = Pre(i).f.carry
           /\ Post(i + 1).f.carry = Pre(i).f.carry

\* C1 witness: INC(B) then DEC(B) from B = 254 with the carry flag set
C1_Witness ==
    /\ Len(hist) = 2
    /\ hist[1].instruction = [op |-> "INC", target |-> "B"]
    /\ hist[2].instruction = [op |-> "DEC", target |-> "B"]
    /\ hist[1].registers.b = 254
    /\ hist[1].registers.f.carry
    /\ hist[2].registers.b = 255
    /\ registers.b = 254
    /\ registers.f.carry
    /\ status = "ok"

\* the flags a subtraction of value from a sets, as the specification's
\* table states them
SubFlags(a, value) ==
    [zero       |-> (a - value) % 256 = 0,
     subtract   |-> TRUE,
     half_carry |-> (a % 16) < (value % 16),
     carry      |-> a < value]

\* C2: CP(target) returns, leaves A as it was and sets the flags to
\* zero = ((A - value) mod 256 = 0), subtract, half_carry = (A & 0xF) <
\* (value & 0xF), carry = (A < value), which are the flags SUB(target) sets.
C2_CpFlagsOfSubKeepsA ==
    \A i \in Calls :
        /\ Executed(i, {"CP"})
             => /\ Returned(i)
                /\ Post(i).a = Pre(i).a
                /\ Post(i).f = SubFlags(Pre(i).a, Operand(i))
        /\ Executed(i, {"SUB"})
             => /\ Returned(i)
                /\ Post(i).a = (Pre(i).a - Operand(i)) % 256
                /\ Post(i).f = SubFlags(Pre(i).a, Operand(i))

\* C2 witness: CP(B) with A < B, which borrows, and A nonzero and unchanged
C2_Witness ==
    /\ Len(hist) = 1
    /\ hist[1].instruction = [op |-> "CP", target |-> "B"]
    /\ hist[1].registers.a > 0
    /\ hist[1].registers.a < hist[1].registers.b
    /\ ~hist[1].registers.f.carry
    /\ registers.a = hist[1].registers.a
    /\ registers.f.carry
    /\ registers.f.subtract

\* C3: SWAP(target) returns with the target's nibbles exchanged and all four
\* flags false, also when the value and the result are 0.
C3_SwapNibblesClearsFlags ==
    \A i \in Calls :
        Executed(i, {"SWAP"})
        => /\ Returned(i)
           /\ Result(i) = (Operand(i) % 16) * 16 + (Operand(i) \div 16)
           /\ Post(i).f = [zero |-> FALSE, subtract |-> FALSE,
                           half_carry |-> FALSE, carry |-> FALSE]

\* C3 witness: SWAP(E) on E = 0 with every flag set beforehand
C3_Witness ==
    /\ Len(hist) = 1
    /\ hist[1].instruction = [op |-> "SWAP", target |-> "E"]
    /\ hist[1].registers.e = 0
    /\ hist[1].registers.f.zero
    /\ hist[1].registers.f.carry
    /\ registers.e = 0
    /\ ~registers.f.zero
    /\ ~registers.f.carry

\* C4: ADD(target), target A included, returns with A = (A_old + value) mod
\* 256, zero = (result = 0), subtract = false, half_carry = ((A_old & 0xF) +
\* (value & 0xF) > 0xF) and carry = (A_old + value > 0xFF).
C4_AddResultAndFlags ==
    \A i \in Calls :
        Executed(i, {"ADD"})
        => /\ Returned(i)
           /\ Post(i).a = (Pre(i).a + Operand(i)) % 256
           /\ Post(i).f =
                  [zero       |-> (Pre(i).a + Operand(i)) % 256 = 0,
                   subtract   |-> FALSE,
                   half_carry |-> (Pre(i).a % 16) + (Operand(i) % 16) > 15,
                   carry      |-> Pre(i).a + Operand(i) > 255]

\* C4 witness: A = 0xFF plus 0x01 gives 0x00 with zero, half carry and carry
C4_Witness ==
    /\ Len(hist) = 1
    /\ Executed(1, {"ADD"})
    /\ hist[1].registers.a = 255
    /\ Operand(1) = 1
    /\ registers.a = 0
    /\ registers.f = [zero |-> TRUE, subtract |-> FALSE,
                      half_carry |-> TRUE, carry |-> TRUE]

\* the pairs of the register file a state holds: <<high, low, folded>>
Pairs(r) == {<<r.b, r.c, get_bc(r)>>, <<r.d, r.e, get_de(r)>>,
             <<r.h, r.l, get_hl(r)>>}

\* C5: fold(hi, lo) = hi * 256 + lo and unfold(fold(hi, lo)) = (hi, lo) for
\* the byte pairs the registers hold, fold(unfold(x)) = x for the 16-bit x a
\* pair is set to, and after set_pair(x) get_pair() is x, the high register
\* holds x >> 8, the low register x & 0xFF, and every other register and the
\* flags are as before.
C5_FoldUnfoldAndPairs ==
    /\ \A p \in Pairs(registers) :
           /\ p[3] = p[1] * 256 + p[2]
           /\ unfold(fold(p[1], p[2])) = <<p[1], p[2]>>
    /\ \A i \in Calls :
           LET x  == hist[i].value
               hi == x \div 256
               lo == x % 256
               u  == unfold(x)
           IN  /\ hist[i].call \in {"set_bc", "set_de", "set_hl"}
                    => /\ fold(u[1], u[2]) = x
                       /\ u = <<hi, lo>>
               /\ hist[i].call = "set_bc"
                    => /\ get_bc(Post(i)) = x
                       /\ Post(i) = [Pre(i) EXCEPT !.b = hi, !.c = lo]
               /\ hist[i].call = "set_de"
                    => /\ get_de(Post(i)) = x
                       /\ Post(i) = [Pre(i) EXCEPT !.d = hi, !.e = lo]
               /\ hist[i].call = "set_hl"
                    => /\ get_hl(Post(i)) = x
                       /\ Post(i) = [Pre(i) EXCEPT !.h = hi, !.l = lo]

\* C5 witness: set_de(0xABCD) on a register file with D = 1 and E = 5 leaves
\* D = 0xAB and E = 0xCD, and get_de() returns 0xABCD
C5_Witness ==
    /\ Len(hist) = 1
    /\ hist[1].call = "set_de"
    /\ hist[1].value = 43981
    /\ hist[1].registers.d = 1
    /\ hist[1].registers.e = 5
    /\ registers.d = 171
    /\ registers.e = 205
    /\ get_de(registers) = 43981

\* C6: executing an instruction outside the eleven families never returns:
\* it panics, and the register file is as it was before the call.
C6_UnimplementedPanics ==
    \A i \in Calls :
        (hist[i].call = "execute" /\ hist[i].instruction.op \notin
             {"ADD", "ADC", "SUB", "SBC", "AND", "OR", "XOR", "CP",
              "INC", "DEC", "SWAP"})
        => /\ ~Returned(i)
           /\ Post(i) = Pre(i)

\* C6 witness: an instruction of another family was executed on a register
\* file with A = 255, and the process has panicked
C6_Witness ==
    /\ Len(hist) = 1
    /\ hist[1].call = "execute"
    /\ hist[1].instruction.op \notin InScope
    /\ hist[1].registers.a = 255
    /\ status = "panicked"

\* C7: SBC(target) returns for every A, operand and incoming carry, with
\* A = (A_old - ((value - carry_in) mod 256)) mod 256, zero = (result = 0),
\* subtract, half_carry = ((A_old & 0xF) < (value & 0xF)) and carry = the
\* borrow of that subtraction.
C7_SbcNeverFails ==
    \A i \in Calls :
        Executed(i, {"SBC"})
        => LET operand ==
                   (Operand(i) - (IF Pre(i).f.carry THEN 1 ELSE 0)) % 256
           IN  /\ Returned(i)
               /\ Post(i).a = (Pre(i).a - operand) % 256
               /\ Post(i).f =
                      [zero       |-> (Pre(i).a - operand) % 256 = 0,
                       subtract   |-> TRUE,
                       half_carry |-> (Pre(i).a % 16) < (Operand(i) % 16),
                       carry      |-> Pre(i).a < operand]

\* C8: INC(target) and DEC(target) return for every value of the target,
\* with the target at (value + 1) mod 256, respectively (value - 1) mod 256,
\* and zero = (result = 0).
C8_IncDecWrapAndAreTotal ==
    \A i \in Calls :
        /\ Executed(i, {"INC"})
             => /\ Returned(i)
                /\ Result(i) = (Operand(i) + 1) % 256
                /\ Post(i).f.zero = (Result(i) = 0)
        /\ Executed(i, {"DEC"})
             => /\ Returned(i)
                /\ Result(i) = (Operand(i) - 1) % 256
                /\ Post(i).f.zero = (Result(i) = 0)

Bytes(r) == [t \in AritmeticTarget |-> register_from_target(r, t)]

\* C10: in every sequence of instructions, ADD, ADC, SUB, SBC, AND, OR and
\* XOR leave B, C, D, E, H and L as they were, CP leaves all seven 8-bit
\* registers as they were, and INC, DEC and SWAP leave every 8-bit register
\* but their target as it was.
C10_OnlyNamedRegistersChange ==
    \A i \in Calls :
        /\ Executed(i, {"ADD", "ADC", "SUB", "SBC", "AND", "OR", "XOR"})
             => \A t \in AritmeticTarget \ {"A"} :
                    Bytes(Post(i))[t] = Bytes(Pre(i))[t]
        /\ Executed(i, {"CP"})
             => Bytes(Post(i)) = Bytes(Pre(i))
        /\ Executed(i, {"INC", "DEC", "SWAP"})
             => \A t \in AritmeticTarget \ {Target(i)} :
                    Bytes(Post(i))[t] = Bytes(Pre(i))[t]

\* C10 witness: INC(A), then INC(C) on a new CPU: the second call changes C
\* and leaves A = 1 and B = 0
C10_Witness ==
    /\ Len(hist) = 2
    /\ hist[1].instruction = [op |-> "INC", target |-> "A"]
    /\ hist[2].instruction = [op |-> "INC", target |-> "C"]
    /\ hist[2].registers.a = 1
    /\ registers.a = 1
    /\ registers.c = 1
    /\ registers.b = 0
    /\ status = "ok"

====
